---- MODULE Spec2Model ----
(***************************************************************************)
(* Model of scripts/build_attrs.py: the ACS places attribute builder.      *)
(*                                                                         *)
(* Python strings are sequences of one-character strings, so that strip,   *)
(* upper, zfill, len and the numeric parsers are computed character by     *)
(* character.  Python values are records of one shape:                     *)
(*    t = "none"  None                                                    *)
(*    t = "int"   the integer n                                            *)
(*    t = "float" the finite float n/d (d a power of ten, lowest terms)    *)
(*    t = "inf"   the float +inf (n = 1) or -inf (n = -1)                  *)
(*    t = "nan"   the float nan                                            *)
(*    t = "str"   the string s                                             *)
(*    t = "round" the float round(float(n/d) / (a / M2_PER_SQMI), r),      *)
(*                kept as the expression: its operands exceed the range of *)
(*                32-bit integers once scaled by M2_PER_SQMI               *)
(***************************************************************************)
EXTENDS Integers, Sequences, FiniteSets, TLC

\* ------------------------------------------------------------------ bounds
MaxStates == 2
MaxRows == 2
MaxFeatures == 2
MaxRetries == 3

\* ------------------------------------------------------- program constants
DefaultRetries == 6
DefaultBaseSleep == 1
GeoidLen == 7
StateWidth == 2
PlaceWidth == 5
DefaultDensityRound == 1

\* ------------------------------------------------------------------ values
None == [t |-> "none", n |-> 0, d |-> 1, s |-> <<>>, a |-> 0, r |-> 0]
IntV(k) == [t |-> "int", n |-> k, d |-> 1, s |-> <<>>, a |-> 0, r |-> 0]
FloatV(num, den) == [t |-> "float", n |-> num, d |-> den, s |-> <<>>, a |-> 0, r |-> 0]
InfV(sign) == [t |-> "inf", n |-> sign, d |-> 1, s |-> <<>>, a |-> 0, r |-> 0]
NanV == [t |-> "nan", n |-> 0, d |-> 1, s |-> <<>>, a |-> 0, r |-> 0]
StrV(str) == [t |-> "str", n |-> 0, d |-> 1, s |-> str, a |-> 0, r |-> 0]
RoundV(pop, aland, nd) == [t |-> "round", n |-> pop.n, d |-> pop.d, s |-> <<pop.t>>, a |-> aland, r |-> nd]

\* the outcome of an expression that may raise
Ok(v) == [raised |-> "", v |-> v]
Raise(e) == [raised |-> e, v |-> None]

\* ----------------------------------------------------------------- strings
Digits == <<"0", "1", "2", "3", "4", "5", "6", "7", "8", "9">>
LowerCase == <<"a", "b", "c", "d", "e", "f", "g", "h", "i", "j", "k", "l", "m", "n", "o", "p", "q", "r", "s", "t", "u", "v", "w", "x", "y", "z">>
UpperCase == <<"A", "B", "C", "D", "E", "F", "G", "H", "I", "J", "K", "L", "M", "N", "O", "P", "Q", "R", "S", "T", "U", "V", "W", "X", "Y", "Z">>
Whitespace == {" ", "\t", "\n", "\r"}

IsDigit(c) == \E i \in 1..10 : Digits[i] = c
DigitVal(c) == (CHOOSE i \in 1..10 : Digits[i] = c) - 1
AllDigits(str) == \A i \in 1..Len(str) : IsDigit(str[i])

\* str.upper() / str.lower(), one character
UpperChar(c) == IF \E i \in 1..26 : LowerCase[i] = c THEN UpperCase[CHOOSE i \in 1..26 : LowerCase[i] = c] ELSE c
LowerChar(c) == IF \E i \in 1..26 : UpperCase[i] = c THEN LowerCase[CHOOSE i \in 1..26 : UpperCase[i] = c] ELSE c
Upper(str) == [i \in 1..Len(str) |-> UpperChar(str[i])]
Lower(str) == [i \in 1..Len(str) |-> LowerChar(str[i])]

\* str.strip()
RECURSIVE LStrip(_)
LStrip(str) == IF str # <<>> /\ Head(str) \in Whitespace THEN LStrip(Tail(str)) ELSE str
RECURSIVE RStrip(_)
RStrip(str) == IF str # <<>> /\ str[Len(str)] \in Whitespace THEN RStrip(SubSeq(str, 1, Len(str) - 1)) ELSE str
Strip(str) == RStrip(LStrip(str))

Zeros(k) == [i \in 1..k |-> "0"]

\* str.zfill(width): pads on the left, after a leading sign; never truncates
zfill(str, width) ==
    IF Len(str) >= width THEN str
    ELSE IF str # <<>> /\ str[1] \in {"+", "-"}
         THEN <<str[1]>> \o Zeros(width - Len(str)) \o Tail(str)
         ELSE Zeros(width - Len(str)) \o str

\* the decimal number written by a string of digits
RECURSIVE DigitsVal(_)
DigitsVal(str) == IF str = <<>> THEN 0 ELSE 10 * DigitsVal(SubSeq(str, 1, Len(str) - 1)) + DigitVal(str[Len(str)])

RECURSIVE Pow(_, _)
Pow(b, e) == IF e = 0 THEN 1 ELSE b * Pow(b, e - 1)

\* drop the trailing zeros of a fraction
RECURSIVE DropZeros(_)
DropZeros(str) == IF str # <<>> /\ str[Len(str)] = "0" THEN DropZeros(SubSeq(str, 1, Len(str) - 1)) ELSE str

\* ------------------------------------------------------- numeric builtins
\* int(float): truncation toward zero; OverflowError on an infinity,
\* ValueError on nan
TruncDiv(num, den) == IF num >= 0 THEN num \div den ELSE -((-num) \div den)
IntOfFloat(v) ==
    CASE v.t = "float" -> Ok(IntV(TruncDiv(v.n, v.d)))
      [] v.t = "inf" -> Raise("OverflowError")
      [] v.t = "nan" -> Raise("ValueError")
      [] OTHER -> Raise("TypeError")

\* float(str): optional sign, then inf / infinity / nan in any case, or digits
\* with at most one point and at least one digit.  The exponent and the
\* underscore forms are outside the alphabet of the inputs.
DotAt(body) == IF \E i \in 1..Len(body) : body[i] = "." THEN CHOOSE i \in 1..Len(body) : body[i] = "." ELSE 0
FloatOfDigits(low, sign, ip, fr) ==
    IF low \in {<<"i", "n", "f">>, <<"i", "n", "f", "i", "n", "i", "t", "y">>} THEN Ok(InfV(sign))
    ELSE IF low = <<"n", "a", "n">> THEN Ok(NanV)
    ELSE IF AllDigits(ip) /\ AllDigits(fr) /\ low # <<>> /\ low # <<".">>
         THEN Ok(FloatV(sign * DigitsVal(ip \o fr), Pow(10, Len(fr))))
         ELSE Raise("ValueError")
FloatOfParts(body, sign, dot) ==
    FloatOfDigits(Lower(body), sign,
                  IF dot = 0 THEN body ELSE SubSeq(body, 1, dot - 1),
                  IF dot = 0 THEN <<>> ELSE DropZeros(SubSeq(body, dot + 1, Len(body))))
FloatOfBody(body, sign) == FloatOfParts(body, sign, DotAt(body))
FloatOfStripped(b) ==
    FloatOfBody(IF b # <<>> /\ b[1] \in {"+", "-"} THEN Tail(b) ELSE b,
                IF b # <<>> /\ b[1] = "-" THEN -1 ELSE 1)
FloatOfStr(str) == FloatOfStripped(Strip(str))

\* int(str): optional sign and digits only
IntOfBody(body, sign) ==
    IF body # <<>> /\ AllDigits(body) THEN Ok(IntV(sign * DigitsVal(body))) ELSE Raise("ValueError")
IntOfStripped(b) ==
    IntOfBody(IF b # <<>> /\ b[1] \in {"+", "-"} THEN Tail(b) ELSE b,
              IF b # <<>> /\ b[1] = "-" THEN -1 ELSE 1)
IntOfStr(str) == IntOfStripped(Strip(str))

\* str(x) of a value, for the values the inputs contain
StrOf(v) ==
    CASE v.t = "str" -> v.s
      [] v.t = "inf" -> IF v.n < 0 THEN <<"-", "i", "n", "f">> ELSE <<"i", "n", "f">>
      [] v.t = "nan" -> <<"n", "a", "n">>
      [] v.t = "none" -> <<"N", "o", "n", "e">>
      [] OTHER -> <<"#">>

\* int(x) as the builtin: an int is itself, a float truncates, a string is
\* parsed as an integer literal
IntOf(v) ==
    CASE v.t = "int" -> Ok(v)
      [] v.t \in {"float", "inf", "nan"} -> IntOfFloat(v)
      [] v.t = "str" -> IntOfStr(v.s)
      [] OTHER -> Raise("TypeError")

\* float(x) as the builtin
FloatOf(v) ==
    CASE v.t = "int" -> Ok(FloatV(v.n, 1))
      [] v.t \in {"float", "inf", "nan"} -> Ok(v)
      [] v.t = "str" -> FloatOfStr(v.s)
      [] OTHER -> Raise("TypeError")

\* int(float(x)), the exception of either step raised
IntOfFloatResult(f) == IF f.raised # "" THEN f ELSE IntOfFloat(f.v)

\* ------------------------------------------------------------- pad_geoid
pad_geoid_concat(statefp, placefp) == statefp \o placefp
pad_geoid(statefp, placefp) == zfill(statefp, StateWidth) \o zfill(placefp, PlaceWidth)

\* ----------------------------------------------------------- parse_value
\* the result is Ok(value) or Raise(exception that escapes the function)
\* lines 115-123: the try block over the float already parsed
parse_int(k) == IF k.raised = "ValueError" THEN Ok(None) ELSE k
parse_number(f, vtype) ==
    IF f.raised = "ValueError" THEN Ok(None)
    ELSE IF vtype = "float" THEN f
    ELSE parse_int(IntOfFloat(f.v))
\* lines 113-123 over the stripped string
parse_stripped(str, vtype) ==
    IF str = <<>> \/ Upper(str) \in {<<"N", "U", "L", "L">>, <<"N", "/", "A">>} THEN Ok(None)
    ELSE IF vtype \in {"int", "float"} THEN parse_number(FloatOfStr(str), vtype)
    ELSE Ok(StrV(str))
parse_value(raw, vtype) == IF raw.t = "none" THEN Ok(None) ELSE parse_stripped(Strip(StrOf(raw)), vtype)

\* ----------------------------------------------------- load_aland_by_geoid
\* a feature's properties: GEOID and ALAND, None when the property is absent
Feature(id, aland) == [GEOID |-> id, ALAND |-> aland]

\* props.get("GEOID") or "", then str().strip()
FeatureGeoid(feat) == IF feat.GEOID.t = "none" THEN <<>> ELSE Strip(StrOf(feat.GEOID))

\* one iteration of the loop over the features: "skip", "set" with the integer
\* stored, or "raise" when the exception is none of those the loop catches
LoadStep(op, key, val, raised) == [op |-> op, key |-> key, val |-> val, raised |-> raised]
\* lines 63-66
load_second(key, second) ==
    IF second.raised = "" THEN LoadStep("set", key, second.v.n, "") ELSE LoadStep("skip", key, 0, "")
\* lines 59-66
load_first(key, aland, first) ==
    IF first.raised = "" THEN LoadStep("set", key, first.v.n, "")
    ELSE IF first.raised \in {"ValueError", "TypeError"}
         THEN load_second(key, IntOfFloatResult(FloatOf(StrV(StrOf(aland)))))
         ELSE LoadStep("raise", key, 0, first.raised)
\* lines 56-66
load_keyed(key, aland) ==
    IF Len(key) # GeoidLen \/ aland.t = "none" THEN LoadStep("skip", key, 0, "")
    ELSE load_first(key, aland, IntOf(aland))
\* lines 52-66
load_feature(feat) == load_keyed(FeatureGeoid(feat), feat.ALAND)

RECURSIVE load_loop(_, _)
load_step(feats, out, step) ==
    CASE step.op = "raise" -> [raised |-> step.raised, index |-> out]
      [] step.op = "skip" -> load_loop(Tail(feats), out)
      [] step.op = "set" -> load_loop(Tail(feats), (step.key :> step.val) @@ out)
load_loop(feats, out) ==
    IF feats = <<>> THEN [raised |-> "", index |-> out] ELSE load_step(feats, out, load_feature(Head(feats)))

\* exists: whether the path names a file; feats: the features of the document
load_aland_by_geoid(exists, feats) ==
    IF ~exists THEN [raised |-> "FileNotFoundError", index |-> <<>>]
    ELSE load_loop(feats, <<>>)

\* ------------------------------------------------------------- fetch_json
CaughtErrors == {"HTTPError", "URLError", "TimeoutError", "JSONDecodeError"}
\* an exception of the attempt that the except clause does not name
UncaughtErrors == {"UnicodeDecodeError"}

\* net[k] is what the k-th request of this call meets: kind "ok" with the
\* payload the body parses to, or the exception it ends in
Outcome(kind, payload) == [kind |-> kind, payload |-> payload]
FetchResult(status, payload, attempts, slept, error, url, last_err) ==
    [status |-> status, payload |-> payload, attempts |-> attempts, slept |-> slept,
     error |-> error, url |-> url, last_err |-> last_err]

RECURSIVE fetch_loop(_, _, _, _, _, _, _)
\* lines 94-101, one attempt
fetch_attempt(url, retries, base_sleep_s, net, i, last_err, slept, o) ==
    IF o.kind = "ok" THEN FetchResult("returned", o.payload, i + 1, slept, "", url, last_err)
    ELSE IF o.kind \in CaughtErrors
         THEN fetch_loop(url, retries, base_sleep_s, net, i + 1, o.kind, Append(slept, base_sleep_s * Pow(2, i)))
         ELSE FetchResult("raised", "", i + 1, slept, o.kind, url, last_err)
fetch_loop(url, retries, base_sleep_s, net, i, last_err, slept) ==
    IF i >= retries THEN FetchResult("raised", "", i, slept, "RuntimeError", url, last_err)
    ELSE fetch_attempt(url, retries, base_sleep_s, net, i, last_err, slept, net[i + 1])

fetch_json_shifted(url, retries, base_sleep_s, net) == fetch_loop(url, retries, 2 * base_sleep_s, net, 0, "", <<>>)
fetch_json(url, retries, base_sleep_s, net) == fetch_loop(url, retries, base_sleep_s, net, 0, "", <<>>)

\* ---------------------------------------------------------- configuration
\* cfg.areas: present or not; areaindex_geojson and density_output_key are ""
\* when the key is absent.  cfg.fields: the ordered schema entries.
Field(var, key, type) == [var |-> var, key |-> key, type |-> type]
\* the schemas: the numeric types over the population column, and a schema of
\* one string field that has no population field
Schemas == { <<Field("DP05_0001E", "pop_total", "int"), Field("DP05_0018E", "median_age", "float")>>,
             <<Field("NAME", "name", "string")>> }
AreasCfgs == { [present |-> FALSE, areaindex_geojson |-> "", density_output_key |-> ""] }
             \cup [present : {TRUE}, areaindex_geojson : {"", "areaindex.geojson"},
                   density_output_key : {"", "density"}]
Configs == [areas : AreasCfgs, fields : Schemas, file_exists : BOOLEAN]

\* ------------------------------------------------------------- the inputs
S_6 == <<"6">>
S_08 == <<"0", "8">>
StateCodes == {S_6, S_08}
PlaceCells == { <<"4", "4", "0", "0">>, <<"4", "4", "0", "0", "0", "0">> }
Raws == { None, StrV(<<>>), StrV(<<"n", "u", "l", "l">>), StrV(<<"n", "/", "a">>), StrV(<<"a", "b", "c">>),
          StrV(<<" ", "1", "2", ".", "5">>), StrV(<<"i", "n", "f">>) }
\* a data row as the remote source sends it: the value cell, the place cell,
\* and a state cell that is the state's own code or that code behind a zero
RowSpecs == [val : Raws, pl : PlaceCells, st : {"own", "long"}]
HeaderKinds == {"full", "nostate", "noplace", "novar"}

G_0604400 == <<"0", "6", "0", "4", "4", "0", "0">>
FeatureGeoids == { None, StrV(<<" ">> \o G_0604400 \o <<" ">>), StrV(<<"6", "4", "4", "0", "0">>) }
FeatureAlands == { None, IntV(0), IntV(-5), StrV(<<"4", "5", "0", "0", "0", "0", "0", ".", "0">>),
                   StrV(<<"a", "b", "c">>), InfV(1) }
Features == { Feature(g, a) : g \in FeatureGeoids, a \in FeatureAlands }
SeqsUpTo(S, n) == UNION { [1..k -> S] : k \in 0..n }
AreaFiles == SeqsUpTo(Features, MaxFeatures)

HeaderOf(kind, fields) ==
    (IF kind = "novar" THEN <<>> ELSE [i \in 1..Len(fields) |-> fields[i].var])
    \o (IF kind = "nostate" THEN <<>> ELSE <<"state">>)
    \o (IF kind = "noplace" THEN <<>> ELSE <<"place">>)
RowOf(rs, code, hdr) ==
    [i \in 1..Len(hdr) |-> IF hdr[i] = "state" THEN StrV(IF rs.st = "own" THEN code ELSE <<"0">> \o code)
                           ELSE IF hdr[i] = "place" THEN StrV(rs.pl)
                           ELSE rs.val]

\* a recorded remote source and area file, for runs that are repeated
TapeState(code, hkind, rows) == [code |-> code, hkind |-> hkind, rows |-> rows]
RS(val, pl, st) == [val |-> val, pl |-> pl, st |-> st]
NoTape == [areafile |-> <<>>, states |-> <<>>]
Tapes == {
    [areafile |-> <<Feature(StrV(G_0604400), IntV(4500000))>>,
     states |-> <<TapeState(S_6, "full", <<RS(StrV(<<" ", "1", "2", ".", "5">>), <<"4", "4", "0", "0">>, "own"),
                                         RS(None, <<"4", "4", "0", "0", "0", "0">>, "own"),
                                         RS(StrV(<<"a", "b", "c">>), <<"4", "4", "0", "0">>, "own")>>),
                  TapeState(S_08, "full", <<RS(StrV(<<"n", "/", "a">>), <<"4", "4", "0", "0", "1">>, "own")>>)>>],
    [areafile |-> <<Feature(StrV(G_0604400), IntV(-5)), Feature(None, IntV(0))>>,
     states |-> <<TapeState(S_08, "full", <<>>),
                  TapeState(S_6, "full", <<RS(StrV(<<"i", "n", "f">>), <<"4", "4", "0", "0">>, "long"),
                                         RS(StrV(<<" ", "1", "2", ".", "5">>), <<"4", "4", "0", "0", "1">>, "own")>>)>>],
    [areafile |-> <<>>,
     states |-> <<TapeState(S_6, "full", <<RS(StrV(<<"a", "b", "c">>), <<"4", "4", "0", "0">>, "own")>>),
                  TapeState(S_6, "noplace", <<>>)>>],
    [areafile |-> <<Feature(StrV(G_0604400), StrV(<<"4", "5", "0", "0", "0", "0", "0", ".", "0">>))>>,
     states |-> <<TapeState(S_6, "full", <<RS(StrV(<<" ", "1", "2", ".", "5">>), <<"4", "4", "0", "0">>, "own"),
                                         RS(None, <<"4", "4", "0", "0">>, "own")>>),
                  TapeState(S_6, "full", <<RS(StrV(<<"n", "u", "l", "l">>), <<"4", "4", "0", "0">>, "own")>>)>>] }

\* ------------------------------------------------------------------ state
VARIABLES
    cfg,             \* the configuration document read at line 156
    pc,              \* where main() is: start, fetch_states, loop, rows, done, aborted
    gj,              \* the features of the area file while the loader holds them
    aland_by_geoid,  \* the Area Index
    state,           \* the loop variable of line 215
    header,          \* rows[0] of the state's response
    out,             \* the per-state document being collected
    written,         \* line 234
    geoid,           \* line 239: the GEOID built from the row read last
    nrows,           \* the data rows of the response read so far
    totals,          \* lines 203-208
    files_out,       \* line 210
    fs,              \* the per-state files on disk, by path
    manifest_file,   \* the manifest on disk: <<>> or <<the document>>
    err,             \* the exception that ended the run
    now,             \* the clock
    run,             \* 1, or 2 in the repeat of a completed run
    replay,          \* whether the remote source and area file are recorded ones
    tape,            \* the recorded inputs
    snapshot,        \* the files the first run left
    fetch_in,        \* the arguments of a call of fetch_json on its own
    fetch_res        \* and its result

vars == <<cfg, pc, gj, aland_by_geoid, state, header, out, written, geoid, nrows, totals, files_out,
          fs, manifest_file, err, now, run, replay, tape, snapshot, fetch_in, fetch_res>>

\* ------------------------------------------------------ locals of main()
\* line 176: bool(areaindex_geojson)
compute_density_areas(c) == c.areas.present
compute_density(c) == c.areas.areaindex_geojson # ""
\* line 172
density_key(c) == IF c.areas.density_output_key = "" THEN "pop_density_sqmi" ELSE c.areas.density_output_key
density_round(c) == DefaultDensityRound

StateListUrl == [for |-> "state:*", in |-> <<>>]
PlacesUrl(statefp) == [for |-> "place:*", in |-> statefp]
NoUrl == [for |-> "", in |-> <<>>]

NoErr == [type |-> "", site |-> "", url |-> NoUrl, last_err |-> ""]
Err(type, site, url, last) == [type |-> type, site |-> site, url |-> url, last_err |-> last]

ZeroTotals == [states |-> 0, places_rows |-> 0, places_written |-> 0, missing_geoid |-> 0]
NoFetchIn == [retries |-> 0, base_sleep_s |-> 0, net |-> <<>>]
NoFetchRes == [status |-> "", payload |-> "", attempts |-> 0, slept |-> <<>>, error |-> "", url |-> NoUrl, last_err |-> ""]
NoSnapshot == [fs |-> <<>>, manifest |-> <<>>]

\* ------------------------------------------------------------ write_json
\* open(path, "w") replaces the file; json.dump with sort_keys writes the
\* mapping in key order, so the mapping stands for the bytes of the file
write_json(files, path, obj) == (path :> obj) @@ files

\* ------------------------------------------------------------ the row loop
HasCol(hdr, name) == \E i \in 1..Len(hdr) : hdr[i] = name
\* idx = {name: i for i, name in enumerate(header)}
Idx(hdr, name) == CHOOSE i \in 1..Len(hdr) : hdr[i] = name /\ \A j \in (i + 1)..Len(hdr) : hdr[j] # name

\* lines 244-247: the record of the schema fields, or the exception raised
BuildResult(raised, site, rec) == [raised |-> raised, site |-> site, rec |-> rec]
RECURSIVE build_rec(_, _, _, _)
build_put(fields, r, hdr, rec, v) ==
    IF v.raised # "" THEN BuildResult(v.raised, "parse_value", rec)
    ELSE build_rec(Tail(fields), r, hdr, (Head(fields).key :> v.v) @@ rec)
build_rec(fields, r, hdr, rec) ==
    IF fields = <<>> THEN BuildResult("", "", rec)
    ELSE IF ~HasCol(hdr, Head(fields).var) THEN BuildResult("KeyError", "row", rec)
    ELSE build_put(fields, r, hdr, rec, parse_value(r[Idx(hdr, Head(fields).var)], Head(fields).type))

\* dict.get
RecGet(rec, key) == IF key \in DOMAIN rec THEN rec[key] ELSE None
AlandGet(index, g) == IF g \in DOMAIN index THEN IntV(index[g]) ELSE None

\* line 257: round(float(pop) / land_sqmi, int(density_round))
rounded(f, aland, nd) == IF f.raised # "" THEN f ELSE Ok(RoundV(f.v, aland, nd))
\* lines 251-257.  land_sqmi = aland_m2 / M2_PER_SQMI is positive exactly
\* when aland_m2 is.
derive_density_nonzero(pop, aland_m2, nd) ==
    IF pop.t # "none" /\ aland_m2.t # "none" /\ aland_m2.n # 0
    THEN rounded(FloatOf(pop), aland_m2.n, nd)
    ELSE Ok(None)
derive_density(pop, aland_m2, nd) ==
    IF pop.t # "none" /\ (aland_m2.t # "none" /\ aland_m2.n # 0) /\ aland_m2.n > 0
    THEN rounded(FloatOf(pop), aland_m2.n, nd)
    ELSE Ok(None)

\* lines 237-261, one data row: op "reject" (line 241), "write" (line 260)
\* or "raise"
RowResult(op, g, rec, raised, site) == [op |-> op, geoid |-> g, rec |-> rec, raised |-> raised, site |-> site]
\* lines 250-260
row_density(c, g, rec, dens) ==
    IF dens.raised # "" THEN RowResult("raise", g, <<>>, dens.raised, "density")
    ELSE RowResult("write", g, (density_key(c) :> dens.v) @@ rec, "", "")
\* lines 244-260
row_record(c, index, g, b) ==
    IF b.raised # "" THEN RowResult("raise", g, <<>>, b.raised, b.site)
    ELSE IF ~compute_density(c) THEN RowResult("write", g, b.rec, "", "")
    ELSE row_density(c, g, b.rec, derive_density(RecGet(b.rec, "pop_total"), AlandGet(index, g), density_round(c)))
\* lines 240-260
row_geoid(r, hdr, c, index, g) ==
    IF Len(g) # GeoidLen THEN RowResult("reject", g, <<>>, "", "")
    ELSE row_record(c, index, g, build_rec(c.fields, r, hdr, <<>>))
process_row(r, hdr, c, index) ==
    row_geoid(r, hdr, c, index, pad_geoid(r[Idx(hdr, "state")].s, r[Idx(hdr, "place")].s))

\* lines 267-269
update_totals_written(tot, ndata, nwritten) ==
    [tot EXCEPT !.states = @ + 1, !.places_rows = @ + nwritten, !.places_written = @ + nwritten]
update_totals(tot, ndata, nwritten) ==
    [tot EXCEPT !.states = @ + 1, !.places_rows = @ + ndata, !.places_written = @ + nwritten]

\* line 210
ResumedFilesOut == IF manifest_file = <<>> THEN <<>> ELSE manifest_file[1].files
InitFilesOut == <<>>

\* lines 271-275
FileEntry(statefp, count) == [statefp |-> statefp, file |-> statefp, count |-> count]

\* lines 305-314
DerivedFields(c) == IF compute_density(c) THEN <<[key |-> density_key(c), type |-> "float", derived |-> TRUE]>> ELSE <<>>

\* lines 281-318
Manifest(c, files, tot, at) ==
    [generated_at |-> at, files |-> files, fields |-> c.fields, derived_fields |-> DerivedFields(c), totals |-> tot]

\* ------------------------------------------------- what the run can read
\* The responses are inputs: the model reveals a response element by element
\* as main() reads it (the next state code, the header, the next data row),
\* or takes it from the tape when the inputs are recorded.
statefp == zfill(state, StateWidth)
Processed == totals.states
AreaFileChoices == IF replay THEN {tape.areafile} ELSE AreaFiles
StateChoices ==
    IF replay THEN (IF Processed < Len(tape.states) THEN {tape.states[Processed + 1].code} ELSE {})
    ELSE (IF Processed < MaxStates THEN StateCodes ELSE {})
NoMoreStates == IF replay THEN Processed >= Len(tape.states) ELSE TRUE
HeaderChoices ==
    IF replay THEN (IF Processed < Len(tape.states) THEN {tape.states[Processed + 1].hkind} ELSE {})
    ELSE HeaderKinds
RowChoices ==
    IF replay THEN (IF nrows < Len(tape.states[Processed + 1].rows) THEN {tape.states[Processed + 1].rows[nrows + 1]} ELSE {})
    ELSE (IF totals.places_rows + nrows < MaxRows THEN RowSpecs ELSE {})
NoMoreRows == IF replay THEN nrows >= Len(tape.states[Processed + 1].rows) ELSE TRUE

\* what the requests of one call of fetch_json(url) meet: n caught failures,
\* then a response that parses or an exception the loop does not catch
FailureCounts == {0, 1, DefaultRetries}
MainErrors == {"HTTPError", "JSONDecodeError"}
MainNets(url) ==
    { [i \in 1..DefaultRetries |-> IF i <= n THEN Outcome(e, "") ELSE fin] :
        n \in FailureCounts, e \in MainErrors,
        fin \in {Outcome("ok", url.for)} \cup {Outcome(u, "") : u \in UncaughtErrors} }

\* ---------------------------------------------------------------- actions
\* the error is recorded and the loop goes on
AbortKeepGoing(e) ==
    /\ pc' = "loop"
    /\ err' = e
    /\ gj' = <<>>
    /\ state' = <<>>
    /\ header' = <<>>
    /\ out' = <<>>
    /\ written' = 0
    /\ geoid' = <<>>
    /\ nrows' = 0
    /\ UNCHANGED <<aland_by_geoid, totals, files_out>>

\* an exception leaves main(): the process ends, its memory is gone and only
\* the files stay
Abort(e) ==
    /\ pc' = "aborted"
    /\ err' = e
    /\ gj' = <<>>
    /\ aland_by_geoid' = <<>>
    /\ state' = <<>>
    /\ header' = <<>>
    /\ out' = <<>>
    /\ written' = 0
    /\ geoid' = <<>>
    /\ nrows' = 0
    /\ totals' = ZeroTotals
    /\ files_out' = <<>>

\* lines 156-179: read the configuration, load the Area Index when enabled
Setup ==
    /\ pc = "start"
    /\ \E file \in (IF compute_density(cfg) /\ cfg.file_exists THEN AreaFileChoices ELSE {<<>>}) :
         \E res \in {load_aland_by_geoid(cfg.file_exists, file)} :
             IF ~compute_density(cfg)
             THEN /\ pc' = "fetch_states"
                  /\ UNCHANGED <<gj, aland_by_geoid, err, state, header, out, written, geoid, nrows, totals, files_out>>
             ELSE IF res.raised # ""
             THEN Abort(Err(res.raised, "load_aland_by_geoid", NoUrl, ""))
             ELSE /\ pc' = "fetch_states"
                  /\ gj' = file
                  /\ aland_by_geoid' = res.index
                  /\ UNCHANGED <<err, state, header, out, written, geoid, nrows, totals, files_out>>
    /\ UNCHANGED <<cfg, fs, manifest_file, now, run, replay, tape, snapshot, fetch_in, fetch_res>>

\* lines 194-213: fetch the state list, start the accumulators
FetchStates ==
    /\ pc = "fetch_states"
    /\ \E net \in MainNets(StateListUrl) :
         \E res \in {fetch_json(StateListUrl, DefaultRetries, DefaultBaseSleep, net)} :
             IF res.status = "raised"
             THEN Abort(Err(res.error, "fetch_json", res.url, res.last_err))
             ELSE /\ pc' = "loop"
                  /\ totals' = ZeroTotals
                  /\ files_out' = InitFilesOut
                  /\ gj' = <<>>
                  /\ UNCHANGED <<err, aland_by_geoid, state, header, out, written, geoid, nrows>>
    /\ UNCHANGED <<cfg, fs, manifest_file, now, run, replay, tape, snapshot, fetch_in, fetch_res>>

\* lines 215-234: the next state: fetch its rows, check the header
BeginState ==
    /\ pc = "loop"
    /\ \E code \in StateChoices, hk \in HeaderChoices :
         \E net \in MainNets(PlacesUrl(zfill(code, StateWidth))) :
           \E res \in {fetch_json(PlacesUrl(zfill(code, StateWidth)), DefaultRetries, DefaultBaseSleep, net)},
              hdr \in {HeaderOf(hk, cfg.fields)} :
               IF res.status = "raised"
               THEN Abort(Err(res.error, "fetch_json", res.url, res.last_err))
               ELSE IF ~HasCol(hdr, "state") \/ ~HasCol(hdr, "place")
               THEN Abort(Err("RuntimeError", "header", res.url, ""))
               ELSE /\ pc' = "rows"
                    /\ state' = code
                    /\ header' = hdr
                    /\ out' = <<>>
                    /\ written' = 0
                    /\ nrows' = 0
                    /\ UNCHANGED <<err, gj, aland_by_geoid, totals, files_out, geoid>>
    /\ UNCHANGED <<cfg, fs, manifest_file, now, run, replay, tape, snapshot, fetch_in, fetch_res>>

\* lines 236-261: one iteration of the loop over the data rows
ProcessRow ==
    /\ pc = "rows"
    /\ \E rs \in RowChoices :
         \E p \in {process_row(RowOf(rs, state, header), header, cfg, aland_by_geoid)} :
             CASE p.op = "reject" ->
                    /\ totals' = [totals EXCEPT !.missing_geoid = @ + 1]
                    /\ nrows' = nrows + 1
                    /\ geoid' = p.geoid
                    /\ UNCHANGED <<pc, err, out, written, gj, aland_by_geoid, state, header, files_out>>
               [] p.op = "raise" ->
                    Abort(Err(p.raised, p.site, NoUrl, ""))
               [] p.op = "write" ->
                    /\ out' = (p.geoid :> p.rec) @@ out
                    /\ written' = written + 1
                    /\ nrows' = nrows + 1
                    /\ geoid' = p.geoid
                    /\ UNCHANGED <<pc, err, totals, gj, aland_by_geoid, state, header, files_out>>
    /\ UNCHANGED <<cfg, fs, manifest_file, now, run, replay, tape, snapshot, fetch_in, fetch_res>>

\* lines 263-277: persist the document, account for the state
FinishState ==
    /\ pc = "rows"
    /\ NoMoreRows
    /\ fs' = write_json(fs, statefp, out)
    /\ totals' = update_totals(totals, nrows, written)
    /\ files_out' = Append(files_out, FileEntry(statefp, written))
    /\ pc' = "loop"
    /\ state' = <<>>
    /\ header' = <<>>
    /\ out' = <<>>
    /\ written' = 0
    /\ geoid' = <<>>
    /\ nrows' = 0
    /\ UNCHANGED <<cfg, gj, aland_by_geoid, manifest_file, err, now, run, replay, tape, snapshot,
                   fetch_in, fetch_res>>

\* lines 279-326: the state list is exhausted: write the manifest; main()
\* returns and the process ends
WriteManifest ==
    /\ pc = "loop"
    /\ NoMoreStates
    /\ manifest_file' = <<Manifest(cfg, files_out, totals, now)>>
    /\ pc' = "done"
    /\ aland_by_geoid' = <<>>
    /\ totals' = ZeroTotals
    /\ files_out' = <<>>
    /\ UNCHANGED <<cfg, gj, state, header, out, written, geoid, nrows,
                   fs, err, now, run, replay, tape, snapshot, fetch_in, fetch_res>>

\* the script is started again after a completed run: a new process over the
\* files the first run left, at a later time
Rerun ==
    /\ pc = "done"
    /\ replay
    /\ run = 1
    /\ run' = 2
    /\ now' = now + 1
    /\ snapshot' = [fs |-> fs, manifest |-> manifest_file]
    /\ pc' = "start"
    /\ UNCHANGED <<cfg, gj, aland_by_geoid, state, header, out, written, geoid, nrows, totals, files_out,
                   fs, manifest_file, err, replay, tape, fetch_in, fetch_res>>

\* a call of fetch_json on its own
CallFetch ==
    /\ pc = "fetch_call"
    /\ fetch_res' = fetch_json(StateListUrl, fetch_in.retries, fetch_in.base_sleep_s, fetch_in.net)
    /\ pc' = "fetch_called"
    /\ UNCHANGED <<cfg, gj, aland_by_geoid, state, header, out, written, geoid, nrows, totals, files_out,
                   fs, manifest_file, err, now, run, replay, tape, snapshot, fetch_in>>

\* --------------------------------------------------------- specifications
InitRun ==
    /\ pc = "start"
    /\ gj = <<>>
    /\ aland_by_geoid = <<>>
    /\ state = <<>>
    /\ header = <<>>
    /\ out = <<>>
    /\ written = 0
    /\ geoid = <<>>
    /\ nrows = 0
    /\ totals = ZeroTotals
    /\ files_out = <<>>
    /\ fs = <<>>
    /\ manifest_file = <<>>
    /\ err = NoErr
    /\ now = 1
    /\ run = 1
    /\ snapshot = NoSnapshot
    /\ fetch_in = NoFetchIn
    /\ fetch_res = NoFetchRes

\* the file can be missing only where a path is configured
RunConfigs == { c \in Configs : c.areas.areaindex_geojson = "" => c.file_exists }

Init ==
    /\ cfg \in RunConfigs
    /\ replay = FALSE
    /\ tape = NoTape
    /\ InitRun

Next == Setup \/ FetchStates \/ BeginState \/ ProcessRow \/ FinishState \/ WriteManifest

Spec == Init /\ [][Next]_vars

\* a completed run repeated over the same recorded inputs
InitRerun ==
    /\ cfg \in { c \in RunConfigs : c.file_exists }
    /\ replay = TRUE
    /\ tape \in Tapes
    /\ InitRun

NextRerun == Setup \/ FetchStates \/ BeginState \/ ProcessRow \/ FinishState \/ WriteManifest \/ Rerun

SpecRerun == InitRerun /\ [][NextRerun]_vars

\* fetch_json alone, over every sequence of request outcomes
FetchPayloads == {"A", "B"}
FetchOutcomes == {Outcome("ok", b) : b \in FetchPayloads} \cup {Outcome(e, "") : e \in CaughtErrors \cup UncaughtErrors}
\* the default call: n failures of one kind, then one final outcome
DefaultNets ==
    { [i \in 1..DefaultRetries |-> IF i <= n THEN Outcome(e, "") ELSE fin] :
        n \in 0..DefaultRetries, e \in CaughtErrors, fin \in FetchOutcomes }
InitFetch ==
    /\ cfg \in { c \in RunConfigs : ~c.areas.present /\ Len(c.fields) = 1 }
    /\ replay = FALSE
    /\ tape = NoTape
    /\ gj = <<>>
    /\ aland_by_geoid = <<>>
    /\ state = <<>>
    /\ header = <<>>
    /\ out = <<>>
    /\ written = 0
    /\ geoid = <<>>
    /\ nrows = 0
    /\ totals = ZeroTotals
    /\ files_out = <<>>
    /\ fs = <<>>
    /\ manifest_file = <<>>
    /\ err = NoErr
    /\ now = 1
    /\ run = 1
    /\ snapshot = NoSnapshot
    /\ fetch_res = NoFetchRes
    /\ pc = "fetch_call"
    /\ \/ \E n \in 0..MaxRetries :
            fetch_in \in [retries : {n}, base_sleep_s : {DefaultBaseSleep, 3}, net : [1..n -> FetchOutcomes]]
       \/ fetch_in \in [retries : {DefaultRetries}, base_sleep_s : {DefaultBaseSleep}, net : DefaultNets]

NextFetch == CallFetch

SpecFetch == InitFetch /\ [][NextFetch]_vars

\* ================================================================ claims
StateCells == StateCodes \cup { <<"0">> \o c : c \in StateCodes }
Manifested == manifest_file[1]
Docs == { fs[path] : path \in DOMAIN fs }
RECURSIVE SumCounts(_)
SumCounts(files) == IF files = <<>> THEN 0 ELSE files[1].count + SumCounts(Tail(files))
RECURSIVE SumEntries(_)
SumEntries(paths) ==
    IF paths = {} THEN 0
    ELSE LET path == CHOOSE q \in paths : TRUE IN Cardinality(DOMAIN fs[path]) + SumEntries(paths \ {path})

\* ---- C1
\* the number of leading requests of the call that fail with an error the
\* loop catches
RECURSIVE CaughtPrefix(_, _)
CaughtPrefix(net, k) ==
    IF k < Len(net) /\ net[k + 1].kind \in CaughtErrors THEN CaughtPrefix(net, k + 1) ELSE k

\* C1: fetch_json makes at most `retries` requests; it returns the payload of
\* the first request that succeeds and makes no further request; after the k-th
\* failed request it has slept base_sleep_s * 2^(k-1) (1,2,4,8,16,32 by
\* default); when all `retries` requests fail it raises an error that names
\* the URL and the last underlying error and returns no payload.
C1_FetchRetriesAndBackoff ==
    pc = "fetch_called" =>
        LET res == fetch_res
            retries == fetch_in.retries
            net == fetch_in.net
            cp == CaughtPrefix(net, 0)
        IN  /\ res.attempts <= retries
            /\ \A k \in 1..Len(res.slept) : res.slept[k] = fetch_in.base_sleep_s * Pow(2, k - 1)
            /\ cp < retries /\ net[cp + 1].kind = "ok" =>
                 /\ res.status = "returned"
                 /\ res.payload = net[cp + 1].payload
                 /\ res.attempts = cp + 1
                 /\ Len(res.slept) = cp
            /\ cp = retries =>
                 /\ res.status = "raised"
                 /\ res.error = "RuntimeError"
                 /\ res.payload = ""
                 /\ res.url = StateListUrl
                 /\ res.last_err = (IF retries = 0 THEN "" ELSE net[retries].kind)
                 /\ res.attempts = retries
                 /\ Len(res.slept) = retries
            /\ cp = retries /\ retries = DefaultRetries /\ fetch_in.base_sleep_s = DefaultBaseSleep =>
                 res.slept = <<1, 2, 4, 8, 16, 32>>

\* two failed requests, two sleeps, then the third request returns its payload
C1_Witness ==
    /\ pc = "fetch_called"
    /\ fetch_res.status = "returned"
    /\ fetch_res.attempts = 3
    /\ fetch_res.slept = <<3, 6>>
    /\ fetch_res.payload = "B"

\* ---- C2
FatalErr(e) == (e.site = "fetch_json" /\ e.type = "RuntimeError") \/ e.site = "header"

\* C2: when a fetch exhausts its retries or a header lacks the state or the
\* place column, the run stops at once: the step writes no per-state document
\* and no manifest, the run is over, and from then on neither the per-state
\* files nor the manifest change.
C2_FatalStopsRun ==
    /\ [](FatalErr(err) => pc = "aborted" /\ manifest_file = <<>>)
    /\ [][FatalErr(err') => fs' = fs /\ manifest_file' = manifest_file]_vars
    /\ [][FatalErr(err) => fs' = fs /\ manifest_file' = manifest_file /\ pc' = pc]_vars

\* a state's fetch exhausted its retries after an earlier state's file was written
C2_Witness ==
    /\ pc = "aborted"
    /\ err.site = "fetch_json"
    /\ err.type = "RuntimeError"
    /\ err.last_err = "JSONDecodeError"
    /\ err.url.for = "place:*"
    /\ \E path \in DOMAIN fs : DOMAIN fs[path] # {}

\* ---- C3
IsGeoid(k) ==
    /\ Len(k) = GeoidLen
    /\ \E st \in StateCells, pl \in PlaceCells :
         /\ Len(st) <= StateWidth
         /\ Len(pl) <= PlaceWidth
         /\ k = Zeros(StateWidth - Len(st)) \o st \o Zeros(PlaceWidth - Len(pl)) \o pl

\* C3: every key of every persisted per-state document is a 7-character
\* GEOID, the zero-padded 2-character state code followed by the zero-padded
\* 5-character place code; a row whose GEOID has another length adds exactly
\* one to missing_geoid and leaves the document and the written count alone.
C3_GeoidKeys ==
    /\ [](\A doc \in Docs : \A k \in DOMAIN doc : IsGeoid(k))
    /\ [][pc = "rows" /\ nrows' = nrows + 1 =>
            IF Len(geoid') # GeoidLen
            THEN /\ totals'.missing_geoid = totals.missing_geoid + 1
                 /\ out' = out
                 /\ written' = written
            ELSE /\ totals'.missing_geoid = totals.missing_geoid
                 /\ geoid' \in DOMAIN out']_vars

\* a document with an entry was persisted in a run that rejected a row
C3_Witness ==
    /\ pc = "loop"
    /\ totals.missing_geoid > 0
    /\ \E doc \in Docs : DOMAIN doc # {}

\* ---- C4
Accounted(tot, files) ==
    /\ tot.places_rows = tot.places_written + tot.missing_geoid
    /\ tot.states = Len(files)
    /\ tot.places_written = SumCounts(files)

\* C4: after each state has been processed, and in the manifest of a completed
\* run, places_rows = places_written + missing_geoid, states is the number of
\* files listed and places_written is the sum of the per-state counts.
C4_TotalsAccount ==
    /\ pc = "loop" => Accounted(totals, files_out)
    /\ pc = "done" => Accounted(Manifested.totals, Manifested.files)

\* a completed run over two states that wrote a row and rejected a row
C4_Witness ==
    /\ pc = "done"
    /\ Manifested.totals.states = 2
    /\ Manifested.totals.places_written > 0
    /\ Manifested.totals.missing_geoid > 0

\* ---- C5
\* C5: parse_value never raises, so no field value ends the run.
C5_ParseNeverRaises == ~(pc = "aborted" /\ err.site = "parse_value")

\* ---- C6
DensityOf(rec) == rec[density_key(cfg)]
\* C6: with density derivation enabled, the density of a record is null
\* whenever its population is null or absent, the Area Index has no entry for
\* its GEOID, or the entry is zero or negative; deriving it never raises.
C6_DensityNull ==
    /\ err.site # "density"
    /\ cfg.areas.areaindex_geojson # "" /\ pc \in {"loop", "rows"} =>
         \A doc \in Docs \cup {out} : \A g \in DOMAIN doc :
             (\/ RecGet(doc[g], "pop_total").t = "none"
              \/ g \notin DOMAIN aland_by_geoid
              \/ aland_by_geoid[g] <= 0)
             => density_key(cfg) \in DOMAIN doc[g] /\ DensityOf(doc[g]).t = "none"

\* a record with a population whose land area is negative has a null density
C6_Witness ==
    /\ pc = "loop"
    /\ cfg.areas.areaindex_geojson # ""
    /\ \E doc \in Docs : \E g \in DOMAIN doc :
         /\ RecGet(doc[g], "pop_total").t = "int"
         /\ g \in DOMAIN aland_by_geoid
         /\ aland_by_geoid[g] < 0
         /\ DensityOf(doc[g]).t = "none"

\* ---- C7
SchemaKeys == { cfg.fields[i].key : i \in 1..Len(cfg.fields) }
OneDescriptor(fields) == Len(fields) = 1 /\ fields[1].key = density_key(cfg)

\* C7 as stated: derived_fields is empty without an `areas` configuration and
\* holds exactly one descriptor with one; no record carries the density key
\* when derivation is disabled and every record carries it when enabled.
C7_AreasPresentDescriptor ==
    /\ pc = "done" =>
         IF cfg.areas.present THEN OneDescriptor(Manifested.derived_fields) ELSE Manifested.derived_fields = <<>>
    /\ \A doc \in Docs \cup {out} : \A g \in DOMAIN doc :
         density_key(cfg) \in DOMAIN doc[g] <=> cfg.areas.present

\* C7 amended: derived_fields is empty when no area-index path is configured
\* (no `areas`, or `areas` without areaindex_geojson) and holds exactly one
\* descriptor with the configured key when a path is configured; without a
\* path the keys of every record are the schema keys, with one every record
\* carries the density key as well.
C7_PathGatesDescriptor ==
    /\ pc = "done" =>
         IF cfg.areas.areaindex_geojson # "" THEN OneDescriptor(Manifested.derived_fields)
         ELSE Manifested.derived_fields = <<>>
    /\ \A doc \in Docs \cup {out} : \A g \in DOMAIN doc :
         DOMAIN doc[g] = SchemaKeys \cup (IF cfg.areas.areaindex_geojson # "" THEN {density_key(cfg)} ELSE {})

\* a completed run with an `areas` block that names no path wrote a record
C7_Witness ==
    /\ pc = "done"
    /\ cfg.areas.present
    /\ cfg.areas.areaindex_geojson = ""
    /\ Manifested.derived_fields = <<>>
    /\ \E doc \in Docs : DOMAIN doc # {}

\* ---- C8
SansTime(m) == [m EXCEPT !.generated_at = 0]
\* C8: a second complete run over the same configuration, responses and area
\* file leaves per-state documents identical to the first run's and a manifest
\* identical in every field but generated_at.
C8_RerunIdentical ==
    run = 2 /\ pc = "done" =>
        /\ fs = snapshot.fs
        /\ SansTime(Manifested) = SansTime(snapshot.manifest[1])

\* the second run completed, at another time, over documents with entries
C8_Witness ==
    /\ run = 2
    /\ pc = "done"
    /\ Manifested.generated_at # snapshot.manifest[1].generated_at
    /\ \E doc \in Docs : DOMAIN doc # {}
    /\ Manifested.totals.missing_geoid > 0

\* ---- C9
\* an ALAND the loader can turn into an integer, and that integer
AlandParses(a) ==
    \/ a.t = "int"
    \/ a.t = "str" /\ FloatOfStr(a.s).raised = "" /\ FloatOfStr(a.s).v.t = "float"
AlandInt(a) == IF a.t = "int" THEN a.n ELSE TruncDiv(FloatOfStr(a.s).v.n, FloatOfStr(a.s).v.d)
Contributes(feat) ==
    /\ feat.GEOID.t # "none"
    /\ Len(FeatureGeoid(feat)) = GeoidLen
    /\ feat.ALAND.t # "none"
    /\ AlandParses(feat.ALAND)
\* the index holds, for each GEOID, the integer of the last feature that
\* contributes one, and nothing for the other features
IndexOfFeatures ==
    /\ \A k \in DOMAIN aland_by_geoid :
         /\ Len(k) = GeoidLen
         /\ aland_by_geoid[k] \in Int
         /\ \E i \in 1..Len(gj) :
              /\ Contributes(gj[i])
              /\ FeatureGeoid(gj[i]) = k
              /\ aland_by_geoid[k] = AlandInt(gj[i].ALAND)
              /\ \A j \in (i + 1)..Len(gj) : ~(Contributes(gj[j]) /\ FeatureGeoid(gj[j]) = k)
    /\ \A i \in 1..Len(gj) : Contributes(gj[i]) => FeatureGeoid(gj[i]) \in DOMAIN aland_by_geoid
Running == {"fetch_states", "loop", "rows"}

\* C9: the load of an existing file fails on no feature; after it every key
\* is a 7-character GEOID and every value a non-negative integer, a feature
\* without a usable GEOID or ALAND contributes no entry, and the index is not
\* modified for the rest of the run.
C9_LoadSkipsAndNonNegative ==
    /\ [](pc = "aborted" /\ err.site = "load_aland_by_geoid" => err.type = "FileNotFoundError")
    /\ [](pc = "fetch_states" => IndexOfFeatures /\ \A k \in DOMAIN aland_by_geoid : aland_by_geoid[k] >= 0)
    /\ [][(pc \in Running /\ pc' \in Running) => UNCHANGED aland_by_geoid]_vars

\* ---- C10
\* C10: for every state processed the count listed for it equals the number
\* of entries of its persisted document, and places_written equals the number
\* of entries of all persisted documents.
C10_CountsMatchDocuments ==
    pc = "loop" =>
        /\ \A i \in 1..Len(files_out) : files_out[i].count = Cardinality(DOMAIN fs[files_out[i].file])
        /\ totals.places_written = SumEntries(DOMAIN fs)

====
